---- MODULE Spec2Model ----
(***************************************************************************)
(* A model of the streaming JSON tokenizer of decode.go: the byte cursor   *)
(* (next/undo), the separator skipper, the token classifier, the literal   *)
(* matcher, the number scanner and the lazy string reader with its step    *)
(* functions.  Bytes are the integers 0..255, byte strings are sequences   *)
(* of them, a Go error is a record, a token is a record.                   *)
(***************************************************************************)
EXTENDS Integers, Sequences, FiniteSets, TLC

VARIABLES d, r, rh, results, last, stream

vars == <<d, r, rh, results, last, stream>>

\* ------------------------------------------------------------------ bytes

\* The ASCII codes of the characters the decoder's code names.
Ch == [ tab |-> 9, lf |-> 10, ff |-> 12, cr |-> 13, bs |-> 8, space |-> 32,
        quote |-> 34, comma |-> 44, minus |-> 45, dot |-> 46, slash |-> 47,
        zero |-> 48, nine |-> 57, colon |-> 58,
        A |-> 65, D |-> 68, E |-> 69, F |-> 70,
        lbracket |-> 91, backslash |-> 92, rbracket |-> 93,
        a |-> 97, b |-> 98, e |-> 101, f |-> 102, l |-> 108, n |-> 110,
        o |-> 111, r |-> 114, s |-> 115, t |-> 116, u |-> 117, x |-> 120,
        lbrace |-> 123, rbrace |-> 125 ]

Digit(k) == Ch.zero + k

\* x bound to the value of v in F(x): a LET whose definition is evaluated
\* exactly once.
Bind(v, F(_)) == CHOOSE y \in {F(x) : x \in {v}} : TRUE

RECURSIVE SeqSum(_)
SeqSum(s) == IF s = <<>> THEN 0 ELSE Head(s) + SeqSum(Tail(s))

RECURSIVE Flatten(_)
Flatten(ss) == IF ss = <<>> THEN <<>> ELSE Head(ss) \o Flatten(Tail(ss))

Repeat(b, k) == [i \in 1..k |-> b]

\* ------------------------------------------------------------------ errors

\* A Go error value: kind tells the identity (the nil error, the io.EOF
\* sentinel, the ErrNotString sentinel, an error value of the byte source, or
\* an error built by errors.New / fmt.Errorf), text is its message.
NoErr == [kind |-> "nil", text |-> <<>>]

EOF == [kind |-> "EOF", text |-> <<"EOF">>]

ErrNotString == [kind |-> "ErrNotString", text |-> <<"token is not a string value">>]

SourceError(id) == [kind |-> "source", text |-> <<id>>]

NewError(text) == [kind |-> "text", text |-> text]

\* fmt.Errorf("... 0x%02x ...", input): the byte is part of the message.
ByteMsg(msg, input) == NewError(<<msg, ToString(input)>>)

\* ------------------------------------------------------------------ source

\* The io.Reader behind the decoder: a list of the results (data, err) its
\* next Read calls return, and the result (0, tail) it returns ever after.
\* A Read into a buffer of cap bytes returns at most cap bytes; what is left
\* of the data is returned by the next Read.
SourceRead(src, cap) ==
    IF src.reads = <<>>
    THEN [src |-> src, data |-> <<>>, err |-> src.tail]
    ELSE IF Len(Head(src.reads).data) > cap
    THEN [src |-> [src EXCEPT !.reads[1].data =
                     SubSeq(@, cap + 1, Len(@))],
          data |-> SubSeq(Head(src.reads).data, 1, cap), err |-> NoErr]
    ELSE [src |-> [src EXCEPT !.reads = Tail(@)],
          data |-> Head(src.reads).data, err |-> Head(src.reads).err]

bufferSize == 1024

\* ------------------------------------------------------------------ cursor

\* log, srcErr, hitEOF and clobber are history fields: the bytes next() has
\* handed out during the current call, the failure the source returned during
\* it, whether next() reported end-of-stream during it, and whether undo()
\* ever overwrote a pending byte.
NewDecoder(src) ==
    [source |-> src, line |-> 1, column |-> 1, buffer |-> <<>>, offset |-> 0,
     preparedByte |-> 0, preparedValid |-> FALSE,
     log |-> <<>>, srcErr |-> NoErr, hitEOF |-> FALSE, clobber |-> FALSE]

BeginCall(dec) == [dec EXCEPT !.log = <<>>, !.srcErr = NoErr, !.hitEOF = FALSE]

\* The refill of next(): one Read of the source into the buffer.
refill(dec, rd) ==
    IF rd.err # NoErr /\ rd.err # EOF
    THEN [d |-> [dec EXCEPT !.source = rd.src, !.srcErr = rd.err],
          b |-> 0, err |-> rd.err]
    ELSE IF Len(rd.data) = 0
    THEN [d |-> [dec EXCEPT !.source = rd.src, !.hitEOF = TRUE],
          b |-> 0, err |-> EOF]
    ELSE [d |-> [dec EXCEPT !.source = rd.src, !.buffer = rd.data,
                            !.offset = 1, !.log = Append(@, rd.data[1])],
          b |-> rd.data[1], err |-> NoErr]

\* A cursor that looks into its buffer before it looks at the pending byte.
next_BufferFirst(dec) ==
    IF dec.offset < Len(dec.buffer)
    THEN [d |-> [dec EXCEPT !.offset = @ + 1,
                            !.log = Append(@, dec.buffer[dec.offset + 1])],
          b |-> dec.buffer[dec.offset + 1], err |-> NoErr]
    ELSE IF dec.preparedValid
    THEN [d |-> [dec EXCEPT !.preparedValid = FALSE,
                            !.log = Append(@, dec.preparedByte)],
          b |-> dec.preparedByte, err |-> NoErr]
    ELSE Bind(SourceRead(dec.source, bufferSize), LAMBDA rd : refill(dec, rd))

next(dec) ==
    IF dec.preparedValid
    THEN [d |-> [dec EXCEPT !.preparedValid = FALSE,
                            !.log = Append(@, dec.preparedByte)],
          b |-> dec.preparedByte, err |-> NoErr]
    ELSE IF dec.offset < Len(dec.buffer)
    THEN [d |-> [dec EXCEPT !.offset = @ + 1,
                            !.log = Append(@, dec.buffer[dec.offset + 1])],
          b |-> dec.buffer[dec.offset + 1], err |-> NoErr]
    ELSE Bind(SourceRead(dec.source, bufferSize), LAMBDA rd : refill(dec, rd))

undo(dec, input) ==
    [dec EXCEPT !.preparedByte = input, !.preparedValid = TRUE,
                !.clobber = @ \/ dec.preparedValid]

\* Decoder.err: the message prefixed with the position counters.
err(dec, e) ==
    NewError(<<"scan error on line", ToString(dec.line), "at column",
               ToString(dec.column)>> \o e.text)

\* A skipper to which the colon is no separator.
IsSeparator_NoColon(input) ==
    input \in {Ch.space, Ch.cr, Ch.lf, Ch.tab, Ch.comma}

IsSeparator(input) ==
    input \in {Ch.space, Ch.cr, Ch.lf, Ch.tab, Ch.comma, Ch.colon}

\* The position counters after the skipper has read input.
count(dec, input) ==
    IF input = Ch.lf
    THEN [dec EXCEPT !.line = @ + 1, !.column = 1]
    ELSE [dec EXCEPT !.column = @ + 1]

\* One turn of skipWhitespace's loop: done tells whether the loop returns.
skipTurn(dec) ==
    Bind(next(dec), LAMBDA nx :
      IF nx.err # NoErr
      THEN [d |-> nx.d, b |-> 0, err |-> nx.err, done |-> TRUE]
      ELSE [d |-> count(nx.d, nx.b), b |-> nx.b, err |-> NoErr,
            done |-> ~IsSeparator(nx.b)])

RECURSIVE skipWhitespace(_)
skipLoop(x) == IF x.done THEN x ELSE skipWhitespace(x.d)

skipWhitespace(dec) == skipLoop(skipTurn(dec))

\* ------------------------------------------------------------------ tokens

\* A Token: type is its Go dynamic type, val its value as a sequence of
\* integers: the delimiter byte; 1 or 0 for true or false; nothing for nil;
\* sign and decimal digits for an int64; sign, decimal exponent and
\* significant digits for a float64; the bytes of a string.
NoToken == [type |-> "none", val |-> <<>>]

Delim(input) == [type |-> "Delim", val |-> <<input>>]

Bool(v) == [type |-> "bool", val |-> <<IF v THEN 1 ELSE 0>>]

Null == [type |-> "nil", val |-> <<>>]

String(bytes) == [type |-> "string", val |-> bytes]

IsDigit(c) == c >= Ch.zero /\ c <= Ch.nine

RECURSIVE LexLess(_, _)
\* a < b for digit sequences compared from the left; a proper prefix is less.
LexLess(a, b) ==
    IF b = <<>> THEN FALSE
    ELSE IF a = <<>> THEN TRUE
    ELSE IF Head(a) # Head(b) THEN Head(a) < Head(b)
    ELSE LexLess(Tail(a), Tail(b))

RECURSIVE StripLeadingZeros(_)
StripLeadingZeros(ds) ==
    IF ds # <<>> /\ Head(ds) = 0 THEN StripLeadingZeros(Tail(ds)) ELSE ds

RECURSIVE StripTrailingZeros(_)
StripTrailingZeros(ds) ==
    IF ds # <<>> /\ ds[Len(ds)] = 0
    THEN StripTrailingZeros(SubSeq(ds, 1, Len(ds) - 1)) ELSE ds

DigitValues(bytes) == [i \in 1..Len(bytes) |-> bytes[i] - Ch.zero]

\* The decimal digits of 2^63 - 1 and of 2^63.
MaxInt64Digits == <<9,2,2,3,3,7,2,0,3,6,8,5,4,7,7,5,8,0,7>>

MinInt64Digits == <<9,2,2,3,3,7,2,0,3,6,8,5,4,7,7,5,8,0,8>>

SyntaxError(fn) ==
    [ok |-> FALSE, token |-> NoToken, err |-> NewError(<<fn, "invalid syntax">>)]

RangeError(fn) ==
    [ok |-> FALSE, token |-> NoToken, err |-> NewError(<<fn, "value out of range">>)]

\* The int64 of sign sgn and magnitude digits mag (no leading zeros).
IntValue(sgn, mag) ==
    Bind(IF sgn = 1 THEN MinInt64Digits ELSE MaxInt64Digits, LAMBDA limit :
      IF Len(mag) > Len(limit) \/ (Len(mag) = Len(limit) /\ LexLess(limit, mag))
      THEN RangeError("strconv.ParseInt")
      ELSE [ok |-> TRUE, err |-> NoErr,
            token |-> [type |-> "int64",
                       val |-> IF mag = <<>> THEN <<0, 0>> ELSE <<sgn>> \o mag]])

\* strconv.ParseInt(s, 10, 64): an optional sign, then one or more decimal
\* digits; a magnitude outside the int64 range is an error, not saturated.
ParseInt(s) ==
    Bind(IF s # <<>> /\ s[1] = Ch.minus THEN 1 ELSE 0, LAMBDA sgn :
    Bind(SubSeq(s, 1 + sgn, Len(s)), LAMBDA body :
      IF body = <<>> \/ \E i \in 1..Len(body) : ~IsDigit(body[i])
      THEN SyntaxError("strconv.ParseInt")
      ELSE IntValue(sgn, StripLeadingZeros(DigitValues(body)))))

RECURSIVE DigitRun(_, _)
\* The number of decimal digits of s from index i on.
DigitRun(s, i) ==
    IF i <= Len(s) /\ IsDigit(s[i]) THEN 1 + DigitRun(s, i + 1) ELSE 0

RECURSIVE ExponentValue(_, _)
\* strconv accumulates the exponent digits only while it is below 10000.
ExponentValue(ds, acc) ==
    IF ds = <<>> THEN acc
    ELSE IF acc < 10000 THEN ExponentValue(Tail(ds), acc * 10 + Head(ds))
    ELSE ExponentValue(Tail(ds), acc)

\* The leading decimal digits of 2^1024 - 2^970, the least value that rounds
\* to +Inf, as 0.d1d2... * 10^309.
FloatOverflowDigits ==
    <<1,7,9,7,6,9,3,1,3,4,8,6,2,3,1,5,8,0,7,9,3,7,2,8,9,7,1,4,0,5,3,0,3,4,1,
      5,0,7,9,9,3,4,1,3,2,7,1,0,0,3,7,8,2,6,9,3,6,1,7,3,7,7,8,9,8,0,4,4,4,9>>

\* The value of a float literal with sign sgn, mantissa digits all (intLen of
\* them before the point) and exponent exp, as an exact decimal
\* 0.sig * 10^dexp; a magnitude that rounds to infinity is an error, one
\* below the smallest subnormal's decade is zero.
FloatValue(sgn, all, intLen, exp) ==
    Bind(StripLeadingZeros(all), LAMBDA rest :
    Bind(StripTrailingZeros(rest), LAMBDA sig :
    Bind(intLen - (Len(all) - Len(rest)) + exp, LAMBDA dexp :
      IF sig # <<>> /\ (dexp > 309
            \/ (dexp = 309 /\ ~LexLess(sig, FloatOverflowDigits)))
      THEN RangeError("strconv.ParseFloat")
      ELSE [ok |-> TRUE, err |-> NoErr,
            token |-> [type |-> "float64",
                       val |-> IF sig = <<>> \/ dexp < 0 - 323
                               THEN <<sgn, 0>>
                               ELSE <<sgn, dexp>> \o sig]])))

\* The exponent part of a float literal, which starts at index i2 of s.
FloatExponent(s, sgn, all, intLen, i2) ==
    IF ~(i2 <= Len(s) /\ s[i2] \in {Ch.e, Ch.E})
    THEN IF i2 # Len(s) + 1 THEN SyntaxError("strconv.ParseFloat")
         ELSE FloatValue(sgn, all, intLen, 0)
    ELSE Bind(i2 + 1 <= Len(s) /\ s[i2 + 1] = Ch.minus, LAMBDA eSigned :
         Bind(IF eSigned THEN i2 + 2 ELSE i2 + 1, LAMBDA i3 :
         Bind(DigitRun(s, i3), LAMBDA expLen :
           IF expLen = 0 \/ i3 + expLen # Len(s) + 1
           THEN SyntaxError("strconv.ParseFloat")
           ELSE Bind(ExponentValue(DigitValues(SubSeq(s, i3, i3 + expLen - 1)), 0),
                LAMBDA eAbs :
                  FloatValue(sgn, all, intLen,
                             IF eSigned THEN 0 - eAbs ELSE eAbs)))))

\* strconv.ParseFloat(s, 64) on the bytes the scanner lets through: an
\* optional sign, digits with at most one '.', at least one digit, an
\* optional exponent with at least one digit, and nothing after it.
ParseFloat(s) ==
    Bind(IF s # <<>> /\ s[1] = Ch.minus THEN 1 ELSE 0, LAMBDA sgn :
    Bind(DigitRun(s, 1 + sgn), LAMBDA intLen :
    Bind(1 + sgn + intLen, LAMBDA i1 :
    Bind(i1 <= Len(s) /\ s[i1] = Ch.dot, LAMBDA hasDot :
    Bind(IF hasDot THEN DigitRun(s, i1 + 1) ELSE 0, LAMBDA fracLen :
      IF intLen + fracLen = 0
      THEN SyntaxError("strconv.ParseFloat")
      ELSE FloatExponent(s, sgn,
             DigitValues(SubSeq(s, 1 + sgn, i1 - 1)
                         \o SubSeq(s, i1 + 1, i1 + fracLen)),
             intLen, IF hasDot THEN i1 + 1 + fracLen ELSE i1))))))

\* ------------------------------------------------------------------ literals

RECURSIVE expect(_, _, _)
expect(dec, expected, token) ==
    IF expected = <<>>
    THEN [d |-> dec, token |-> token, err |-> NoErr]
    ELSE Bind(next(dec), LAMBDA nx :
           IF nx.err # NoErr /\ nx.err # EOF
           THEN [d |-> nx.d, token |-> NoToken, err |-> nx.err]
           ELSE IF nx.err = EOF
           THEN [d |-> nx.d, token |-> NoToken,
                 err |-> err(nx.d, NewError(<<"unexpected EOF while reading literal">>))]
           ELSE IF nx.b # Head(expected)
           THEN [d |-> nx.d, token |-> NoToken,
                 err |-> err(nx.d, ByteMsg("unexpected input while reading literal",
                                           nx.b))]
           ELSE expect(nx.d, Tail(expected), token))

\* ------------------------------------------------------------------ numbers

numberBufferLen == 64

\* A scratch buffer with room for one byte more.
bufferFull_OneMore(buffer) == Len(buffer) = numberBufferLen + 1

\* offset == len(buffer): the scratch buffer has no room for another byte.
bufferFull(buffer) == Len(buffer) = numberBufferLen

\* A number scanner that keeps the byte that ended the run.
readNumberTurn_NoUndo(dec, buffer, isFloat) ==
    Bind(next(dec), LAMBDA nx :
      IF nx.err # NoErr /\ nx.err # EOF
      THEN [d |-> nx.d, buffer |-> buffer, isFloat |-> isFloat, err |-> nx.err,
            done |-> TRUE]
      ELSE IF nx.err = EOF
      THEN [d |-> nx.d, buffer |-> buffer, isFloat |-> isFloat, err |-> NoErr,
            done |-> TRUE]
      ELSE IF nx.b \notin {Ch.dot, Ch.e, Ch.E} /\ ~IsDigit(nx.b) /\ nx.b # Ch.minus
      THEN [d |-> nx.d, buffer |-> buffer, isFloat |-> isFloat,
            err |-> NoErr, done |-> TRUE]
      ELSE IF bufferFull(buffer)
      THEN [d |-> nx.d, buffer |-> buffer, isFloat |-> isFloat,
            err |-> err(nx.d, NewError(<<"number is too long">>)), done |-> TRUE]
      ELSE [d |-> nx.d, buffer |-> Append(buffer, nx.b),
            isFloat |-> isFloat \/ nx.b \in {Ch.dot, Ch.e, Ch.E},
            err |-> NoErr, done |-> FALSE])

\* One turn of readNumber's loop: done tells whether the loop is left, err
\* is the error the function then returns with, if it does.
readNumberTurn(dec, buffer, isFloat) ==
    Bind(next(dec), LAMBDA nx :
      IF nx.err # NoErr /\ nx.err # EOF
      THEN [d |-> nx.d, buffer |-> buffer, isFloat |-> isFloat, err |-> nx.err,
            done |-> TRUE]
      ELSE IF nx.err = EOF
      THEN [d |-> nx.d, buffer |-> buffer, isFloat |-> isFloat, err |-> NoErr,
            done |-> TRUE]
      ELSE IF nx.b \notin {Ch.dot, Ch.e, Ch.E} /\ ~IsDigit(nx.b) /\ nx.b # Ch.minus
      THEN [d |-> undo(nx.d, nx.b), buffer |-> buffer, isFloat |-> isFloat,
            err |-> NoErr, done |-> TRUE]
      ELSE IF bufferFull(buffer)
      THEN [d |-> nx.d, buffer |-> buffer, isFloat |-> isFloat,
            err |-> err(nx.d, NewError(<<"number is too long">>)), done |-> TRUE]
      ELSE [d |-> nx.d, buffer |-> Append(buffer, nx.b),
            isFloat |-> isFloat \/ nx.b \in {Ch.dot, Ch.e, Ch.E},
            err |-> NoErr, done |-> FALSE])

RECURSIVE readNumberLoop(_)
\* The for loop of readNumber: buffer holds buffer[:offset].
readNumberLoop(x) ==
    IF x.done THEN x ELSE readNumberLoop(readNumberTurn(x.d, x.buffer, x.isFloat))

\* The conversion that ends readNumber: conv is the parser's result.
converted(dec, conv, what) ==
    IF ~conv.ok
    THEN [d |-> dec, token |-> NoToken,
          err |-> err(dec, NewError(<<what>> \o conv.err.text))]
    ELSE [d |-> dec, token |-> conv.token, err |-> NoErr]

readNumber(dec) ==
    Bind(readNumberLoop(readNumberTurn(dec, <<>>, FALSE)), LAMBDA sc :
      IF sc.err # NoErr
      THEN [d |-> sc.d, token |-> NoToken, err |-> sc.err]
      ELSE IF sc.isFloat
      THEN Bind(ParseFloat(sc.buffer), LAMBDA f :
             converted(sc.d, f, "failed to scan float"))
      ELSE Bind(ParseInt(sc.buffer), LAMBDA i :
             converted(sc.d, i, "failed to scan int")))

\* ------------------------------------------------------------------ runes

\* utf16.IsSurrogate: any code unit of 0xD800..0xDFFF, high or low.
IsSurrogate(cp) == 55296 <= cp /\ cp < 57344

\* utf16.DecodeRune: the scalar value of a (high, low) pair, U+FFFD otherwise.
DecodeRune(r1, r2) ==
    IF 55296 <= r1 /\ r1 < 56320 /\ 56320 <= r2 /\ r2 < 57344
    THEN (r1 - 55296) * 1024 + (r2 - 56320) + 65536
    ELSE 65533

\* utf8.EncodeRune: the UTF-8 bytes of cp; a surrogate or a value above
\* U+10FFFF is encoded as U+FFFD.
EncodeRune(cp) ==
    IF cp < 0 \/ cp > 1114111 \/ IsSurrogate(cp) THEN <<239, 191, 189>>
    ELSE IF cp < 128 THEN <<cp>>
    ELSE IF cp < 2048 THEN <<192 + (cp \div 64), 128 + (cp % 64)>>
    ELSE IF cp < 65536
    THEN <<224 + (cp \div 4096), 128 + ((cp \div 64) % 64), 128 + (cp % 64)>>
    ELSE <<240 + (cp \div 262144), 128 + ((cp \div 4096) % 64),
           128 + ((cp \div 64) % 64), 128 + (cp % 64)>>

IsHex(input) ==
    ~((input < Ch.zero \/ Ch.nine < input) /\ (input < Ch.a \/ Ch.f < input)
      /\ (input < Ch.A \/ Ch.F < input))

HexValue(c) ==
    IF IsDigit(c) THEN c - Ch.zero
    ELSE IF c >= Ch.a THEN c - Ch.a + 10 ELSE c - Ch.A + 10

\* getu4: the four hex digits as one number.
getu4(m) ==
    ((HexValue(m[1]) * 16 + HexValue(m[2])) * 16 + HexValue(m[3])) * 16
    + HexValue(m[4])

\* ------------------------------------------------------------------ string reader

\* outputBuffer is a slice of memory: the bytes memory[lo+1 .. hi].
newStringReader ==
    [eof |-> FALSE, step |-> "defaultStep", memory |-> <<0, 0, 0, 0>>,
     memoryOffset |-> 0, outputBuffer |-> [lo |-> 0, hi |-> 0], surrogate |-> 0]

NoReader == [newStringReader EXCEPT !.step = "none"]

\* A run-time panic of the Go program (an index out of range).
Panic == [kind |-> "panic", text |-> <<"index out of range">>]

StepResult(rd, output, ok, e) == [r |-> rd, output |-> output, ok |-> ok, err |-> e]

defaultStep(dec, rd, input) ==
    IF input = Ch.quote
    THEN StepResult([rd EXCEPT !.eof = TRUE], 0, FALSE, EOF)
    ELSE IF input = Ch.backslash
    THEN StepResult([rd EXCEPT !.step = "escape"], 0, FALSE, NoErr)
    ELSE StepResult(rd, input, TRUE, NoErr)

\* An escape table in which \b stands for the form feed.
escaped_BackspaceIsFormFeed(input) ==
    CASE input = Ch.quote     -> Ch.quote
      [] input = Ch.backslash -> Ch.backslash
      [] input = Ch.slash     -> Ch.slash
      [] input = Ch.b         -> Ch.ff
      [] input = Ch.f         -> Ch.ff
      [] input = Ch.n         -> Ch.lf
      [] input = Ch.r         -> Ch.cr
      [] input = Ch.t         -> Ch.tab
      [] OTHER                -> 0 - 1

\* The escape table of escape(): the byte a single-letter escape stands for,
\* -1 for a byte that is no escape.
escaped(input) ==
    CASE input = Ch.quote     -> Ch.quote
      [] input = Ch.backslash -> Ch.backslash
      [] input = Ch.slash     -> Ch.slash
      [] input = Ch.b         -> Ch.bs
      [] input = Ch.f         -> Ch.ff
      [] input = Ch.n         -> Ch.lf
      [] input = Ch.r         -> Ch.cr
      [] input = Ch.t         -> Ch.tab
      [] OTHER                -> 0 - 1

escape(dec, rd, input) ==
    IF input = Ch.u
    THEN StepResult([rd EXCEPT !.step = "unicode", !.memoryOffset = 0],
                    0, FALSE, NoErr)
    ELSE IF escaped(input) >= 0
    THEN StepResult([rd EXCEPT !.step = "defaultStep"], escaped(input), TRUE, NoErr)
    ELSE StepResult([rd EXCEPT !.step = "defaultStep"], 0, FALSE,
           err(dec, ByteMsg("bad escape character while reading string", input)))

\* EncodeRune(r.memory[:], cp) followed by r.outputBuffer = r.memory[:s]:
\* the encoding overwrites the first s bytes of memory.
QueueRune(rd, cp) ==
    Bind(EncodeRune(cp), LAMBDA enc :
      [rd EXCEPT !.memory = [i \in 1..4 |-> IF i <= Len(enc) THEN enc[i] ELSE @[i]],
                 !.outputBuffer = [lo |-> 0, hi |-> Len(enc)]])

\* unicode() once the fourth hex digit is in memory: cp is the code unit.
unicodeDone(dec, rd, cp) ==
    IF rd.surrogate = 0
    THEN IF IsSurrogate(cp)
         THEN StepResult([rd EXCEPT !.surrogate = cp, !.step = "surrogateEscape"],
                         0, FALSE, NoErr)
         ELSE StepResult([QueueRune(rd, cp) EXCEPT !.step = "defaultStep"],
                         0, FALSE, NoErr)
    ELSE IF ~IsSurrogate(cp)
         THEN StepResult(rd, 0, FALSE,
                err(dec, NewError(<<"incomplete surrogate pair">>)))
         ELSE StepResult([QueueRune(rd, DecodeRune(rd.surrogate, cp)) EXCEPT
                             !.surrogate = 0, !.step = "defaultStep"],
                         0, FALSE, NoErr)

unicode(dec, rd, input) ==
    IF ~IsHex(input)
    THEN StepResult(rd, 0, FALSE,
           err(dec, ByteMsg("bad unicode escape character while reading string",
                            input)))
    ELSE IF rd.memoryOffset >= 4
    THEN StepResult(rd, 0, FALSE, Panic)
    ELSE Bind([rd EXCEPT !.memory[rd.memoryOffset + 1] = input,
                         !.memoryOffset = @ + 1], LAMBDA r1 :
           IF r1.memoryOffset < 4
           THEN StepResult(r1, 0, FALSE, NoErr)
           ELSE unicodeDone(dec, r1, getu4(r1.memory)))

surrogateEscape(dec, rd, input) ==
    IF input # Ch.backslash
    THEN StepResult(rd, 0, FALSE,
           err(dec, ByteMsg("expected '\\' for second surrogate, got bad byte", input)))
    ELSE StepResult([rd EXCEPT !.step = "surrogateEscapeU"], 0, FALSE, NoErr)

surrogateEscapeU(dec, rd, input) ==
    IF input # Ch.u
    THEN StepResult(rd, 0, FALSE,
           err(dec, ByteMsg("expected 'u' for second surrogate, got bad byte", input)))
    ELSE StepResult([rd EXCEPT !.step = "unicode", !.memoryOffset = 0],
                    0, FALSE, NoErr)

\* r.step(r, input): the call through the reader's step field.
Step(dec, rd, input) ==
    CASE rd.step = "defaultStep"      -> defaultStep(dec, rd, input)
      [] rd.step = "escape"           -> escape(dec, rd, input)
      [] rd.step = "unicode"          -> unicode(dec, rd, input)
      [] rd.step = "surrogateEscape"  -> surrogateEscape(dec, rd, input)
      [] rd.step = "surrogateEscapeU" -> surrogateEscapeU(dec, rd, input)

\* What Read returns, or where its loop stands: p holds the bytes written to
\* the caller's buffer so far, done tells whether Read returns.
ReadResult(dec, rd, p, n, e, done) ==
    [d |-> dec, r |-> rd, p |-> p, n |-> n, err |-> e, done |-> done]

\* A Read that pushes the closing quote back.
stepped_UndoQuote(nx, st, p) ==
    IF st.err = EOF
    THEN ReadResult(undo(nx.d, nx.b), st.r, p, Len(p), st.err, TRUE)
    ELSE IF st.err # NoErr
    THEN ReadResult(nx.d, st.r, p, Len(p), st.err, TRUE)
    ELSE ReadResult(nx.d, st.r, IF st.ok THEN Append(p, st.output) ELSE p,
                    0, NoErr, FALSE)

\* One turn of Read's loop with the output queue empty: nx is the result of
\* next(), st the result of the step function.
stepped(nx, st, p) ==
    IF st.err # NoErr
    THEN ReadResult(nx.d, st.r, p, Len(p), st.err, TRUE)
    ELSE ReadResult(nx.d, st.r, IF st.ok THEN Append(p, st.output) ELSE p,
                    0, NoErr, FALSE)

\* A Read that hands the cursor's end-of-stream on as it is.
pulled_PlainEOF(nx, rd, p) ==
    IF nx.err # NoErr
    THEN ReadResult(nx.d, rd, p, 0, nx.err, TRUE)
    ELSE Bind(Step(nx.d, rd, nx.b), LAMBDA st : stepped(nx, st, p))

pulled(nx, rd, p) ==
    IF nx.err # NoErr /\ nx.err # EOF
    THEN ReadResult(nx.d, rd, p, 0, nx.err, TRUE)
    ELSE IF nx.err = EOF
    THEN ReadResult(nx.d, rd, p, 0,
           err(nx.d, NewError(<<"unexpected EOF while reading string">>)), TRUE)
    ELSE Bind(Step(nx.d, rd, nx.b), LAMBDA st : stepped(nx, st, p))

\* A Read that starts each call with a byte of the cursor, whatever is queued.
ReadTurn_PullsFirst(dec, rd, p, k) ==
    IF ~(Len(p) < k)
    THEN ReadResult(dec, rd, p, Len(p), NoErr, TRUE)
    ELSE IF rd.outputBuffer.hi - rd.outputBuffer.lo > 0 /\ Len(p) > 0
    THEN ReadResult(dec, [rd EXCEPT !.outputBuffer.lo = @ + 1],
                    Append(p, rd.memory[rd.outputBuffer.lo + 1]), 0, NoErr, FALSE)
    ELSE Bind(next(dec), LAMBDA nx : pulled(nx, rd, p))

\* One turn of the for loop of stringReader.Read; k is len(p), the code's n
\* is Len(p).
ReadTurn(dec, rd, p, k) ==
    IF ~(Len(p) < k)
    THEN ReadResult(dec, rd, p, Len(p), NoErr, TRUE)
    ELSE IF rd.outputBuffer.hi - rd.outputBuffer.lo > 0
    THEN ReadResult(dec, [rd EXCEPT !.outputBuffer.lo = @ + 1],
                    Append(p, rd.memory[rd.outputBuffer.lo + 1]), 0, NoErr, FALSE)
    ELSE Bind(next(dec), LAMBDA nx : pulled(nx, rd, p))

RECURSIVE ReadLoop(_, _)
ReadLoop(x, k) == IF x.done THEN x ELSE ReadLoop(ReadTurn(x.d, x.r, x.p, k), k)

\* A Read that does not look at the eof flag.
Read_IgnoresEof(dec, rd, k) == ReadLoop(ReadTurn(dec, rd, <<>>, k), k)

\* A Read that forgets the bytes queued by the call before it.
Read_DropsQueue(dec, rd, k) ==
    IF rd.eof
    THEN ReadResult(dec, rd, <<>>, 0, EOF, TRUE)
    ELSE ReadLoop(ReadTurn(dec, [rd EXCEPT !.outputBuffer = [lo |-> 0, hi |-> 0]],
                           <<>>, k), k)

Read(dec, rd, k) ==
    IF rd.eof
    THEN ReadResult(dec, rd, <<>>, 0, EOF, TRUE)
    ELSE ReadLoop(ReadTurn(dec, rd, <<>>, k), k)

\* The size of the buffer ioutil.ReadAll hands to Read.
readAllChunk == 512

RECURSIVE ReadAll(_, _, _)
\* ioutil.ReadAll: Read until an error, keep the n bytes of every call;
\* io.EOF is success.
ReadAll(dec, rd, acc) ==
    Bind(Read(dec, rd, readAllChunk), LAMBDA x :
    Bind(acc \o SubSeq(x.p, 1, x.n), LAMBDA acc1 :
      IF x.err # NoErr
      THEN [d |-> x.d, all |-> acc1,
            err |-> IF x.err = EOF THEN NoErr ELSE x.err]
      ELSE ReadAll(x.d, x.r, acc1)))

readString(dec) ==
    Bind(ReadAll(dec, newStringReader, <<>>), LAMBDA x :
      IF x.err # NoErr
      THEN [d |-> x.d, token |-> NoToken,
            err |-> NewError(<<"unable to read string">> \o x.err.text)]
      ELSE [d |-> x.d, token |-> String(x.all), err |-> NoErr])

\* ------------------------------------------------------------------ classifier

\* A classifier that takes null to be complete after "nul".
readToken_ShortNull(dec, input) ==
    IF input \in {Ch.lbrace, Ch.rbrace, Ch.lbracket, Ch.rbracket}
    THEN [d |-> dec, token |-> Delim(input), err |-> NoErr]
    ELSE IF input = Ch.quote THEN readString(dec)
    ELSE IF input = Ch.t THEN expect(dec, <<Ch.r, Ch.u, Ch.e>>, Bool(TRUE))
    ELSE IF input = Ch.f THEN expect(dec, <<Ch.a, Ch.l, Ch.s, Ch.e>>, Bool(FALSE))
    ELSE IF input = Ch.n THEN expect(dec, <<Ch.u, Ch.l>>, Null)
    ELSE IF input = Ch.minus \/ input = Ch.dot \/ IsDigit(input)
    THEN readNumber(undo(dec, input))
    ELSE [d |-> dec, token |-> NoToken, err |-> err(dec, ByteMsg("bad input byte", input))]

readToken(dec, input) ==
    IF input \in {Ch.lbrace, Ch.rbrace, Ch.lbracket, Ch.rbracket}
    THEN [d |-> dec, token |-> Delim(input), err |-> NoErr]
    ELSE IF input = Ch.quote THEN readString(dec)
    ELSE IF input = Ch.t THEN expect(dec, <<Ch.r, Ch.u, Ch.e>>, Bool(TRUE))
    ELSE IF input = Ch.f THEN expect(dec, <<Ch.a, Ch.l, Ch.s, Ch.e>>, Bool(FALSE))
    ELSE IF input = Ch.n THEN expect(dec, <<Ch.u, Ch.l, Ch.l>>, Null)
    ELSE IF input = Ch.minus \/ input = Ch.dot \/ IsDigit(input)
    THEN readNumber(undo(dec, input))
    ELSE [d |-> dec, token |-> NoToken, err |-> err(dec, ByteMsg("bad input byte", input))]

Token(dec) ==
    Bind(skipWhitespace(dec), LAMBDA sk :
      IF sk.err # NoErr
      THEN [d |-> sk.d, token |-> NoToken, err |-> sk.err]
      ELSE Bind(readToken(sk.d, sk.b), LAMBDA t :
             IF t.err # NoErr
             THEN [d |-> t.d, token |-> NoToken, err |-> t.err]
             ELSE [d |-> t.d, token |-> t.token, err |-> NoErr]))

\* A StringReader() that keeps the byte it has looked at.
StringReader_NoUndo(dec) ==
    Bind(skipWhitespace(dec), LAMBDA sk :
      IF sk.err # NoErr
      THEN [d |-> sk.d, r |-> NoReader, err |-> sk.err]
      ELSE IF sk.b # Ch.quote
      THEN [d |-> sk.d, r |-> NoReader, err |-> ErrNotString]
      ELSE [d |-> sk.d, r |-> newStringReader, err |-> NoErr])

StringReader(dec) ==
    Bind(skipWhitespace(dec), LAMBDA sk :
      IF sk.err # NoErr
      THEN [d |-> sk.d, r |-> NoReader, err |-> sk.err]
      ELSE IF sk.b # Ch.quote
      THEN [d |-> undo(sk.d, sk.b), r |-> NoReader, err |-> ErrNotString]
      ELSE [d |-> sk.d, r |-> newStringReader, err |-> NoErr])

\* ------------------------------------------------------------------ sources

\* The offsets at which the reads of a stream of n bytes start, when a read
\* ends after each position of cuts.
Starts(n, cuts) == {0} \cup {c \in cuts : c > 0 /\ c < n}

\* The read that starts at offset s.
Chunk(bytes, cuts, s) ==
    [data |-> SubSeq(bytes, s + 1,
                CHOOSE x \in (cuts \cup {Len(bytes)}) :
                  x > s /\ \A y \in (cuts \cup {Len(bytes)}) : y > s => x <= y),
     err |-> NoErr]

\* The reads a source makes of bytes when it ends a read after each position
\* of cuts.
Split(bytes, cuts) ==
    IF bytes = <<>> THEN <<>>
    ELSE [k \in 1..Cardinality(Starts(Len(bytes), cuts)) |->
            Chunk(bytes, cuts,
                  CHOOSE s \in Starts(Len(bytes), cuts) :
                    Cardinality({t \in Starts(Len(bytes), cuts) : t < s}) = k - 1)]

\* A source of bytes read in the chunks of cuts; the read that returns the
\* last chunk returns lastErr with it, every read after it returns tail.
Source(bytes, cuts, lastErr, tail) ==
    Bind(Split(bytes, cuts), LAMBDA chunks :
      [reads |-> [i \in 1..Len(chunks) |->
                    IF i = Len(chunks) THEN [chunks[i] EXCEPT !.err = lastErr]
                    ELSE chunks[i]],
       tail |-> tail])

errRandomIOError == SourceError("random IO error")

\* How a source ends: <<the error returned with the last chunk, the error
\* returned by every read after it>>.
CleanEndings == {<<NoErr, EOF>>, <<EOF, EOF>>}

FailingEndings == {<<NoErr, errRandomIOError>>}

LossyEndings == {<<errRandomIOError, errRandomIOError>>}

\* The ways to split a stream of n bytes: in one read, one byte per read, or
\* in two reads.
Cuts(n) == {{}, 1..(n - 1)} \cup {{c} : c \in 1..(n - 1)}

\* ------------------------------------------------------------------ calls

MaxCalls == 4

MaxRead == 3

Result(op, k, token, e, n, p) ==
    [op |-> op, k |-> k, token |-> token, err |-> e, n |-> n, p |-> p]

NoHistory == [origin |-> NewDecoder([reads |-> <<>>, tail |-> EOF]),
              got |-> <<>>, failed |-> FALSE]

Panicked == \E i \in 1..Len(results) : results[i].err = Panic

\* A string reader that is neither drained nor failed is in progress; the
\* decoder must not be used until it is done.
ReaderInProgress == r.step # "none" /\ ~r.eof /\ ~rh.failed

CanCall == Len(results) < MaxCalls /\ ~Panicked

\* One call of the caller: Token(), StringReader(), or Read with a buffer of
\* k bytes on the reader rd that StringReader() returned last.
Call(dec, rd, op, k) ==
    CASE op = "Token" ->
           Bind(Token(BeginCall(dec)), LAMBDA x :
             [d |-> x.d, r |-> rd,
              res |-> Result("Token", 0, x.token, x.err, 0, <<>>)])
      [] op = "StringReader" ->
           Bind(StringReader(BeginCall(dec)), LAMBDA x :
             [d |-> x.d, r |-> IF x.err = NoErr THEN x.r ELSE rd,
              res |-> Result("StringReader", 0, NoToken, x.err, 0, <<>>)])
      [] op = "Read" ->
           Bind(Read(BeginCall(dec), rd, k), LAMBDA x :
             [d |-> x.d, r |-> x.r,
              res |-> Result("Read", k, NoToken, x.err, x.n, x.p)])

Failed(res) == res.err # NoErr /\ res.err # EOF

DoToken ==
    /\ CanCall
    /\ ~ReaderInProgress
    /\ \E x \in {Call(d, r, "Token", 0)} :
         /\ d' = x.d
         /\ results' = Append(results, x.res)
    /\ last' = d
    /\ UNCHANGED <<r, rh, stream>>

DoStringReader ==
    /\ CanCall
    /\ ~ReaderInProgress
    /\ \E x \in {Call(d, r, "StringReader", 0)} :
         /\ d' = x.d
         /\ r' = x.r
         /\ rh' = IF x.res.err = NoErr
                  THEN [origin |-> d, got |-> <<>>, failed |-> FALSE]
                  ELSE rh
         /\ results' = Append(results, x.res)
    /\ last' = d
    /\ UNCHANGED stream

\* A reader whose Read has failed is not read again.
DoRead(k) ==
    /\ CanCall
    /\ r.step # "none"
    /\ ~rh.failed
    /\ \E x \in {Call(d, r, "Read", k)} :
         /\ d' = x.d
         /\ r' = x.r
         /\ rh' = [rh EXCEPT !.got = @ \o SubSeq(x.res.p, 1, x.res.n),
                             !.failed = Failed(x.res)]
         /\ results' = Append(results, x.res)
    /\ last' = d
    /\ UNCHANGED stream

Start(src, info) ==
    /\ d = NewDecoder(src)
    /\ r = NoReader
    /\ rh = NoHistory
    /\ results = <<>>
    /\ last = NewDecoder(src)
    /\ stream = info

\* ------------------------------------------------------------------ Spec

\* The streams of the decoder's own tests, and streams that end inside a
\* literal, a number, a string or an escape.
CallStreams ==
    { <<>>,
      <<Ch.space, Ch.lf, Ch.comma, Ch.colon>>,
      <<Ch.n, Ch.u, Ch.l>>,
      <<Ch.n, Ch.u, Ch.l, Ch.s>>,
      <<Ch.n, Ch.u, Ch.l, Ch.l, Ch.t, Ch.r, Ch.u, Ch.e>>,
      <<Ch.lf, Ch.f, Ch.a, Ch.l, Ch.s, Ch.e, Ch.rbracket>>,
      <<Ch.f, Ch.a>>,
      <<Ch.minus, Digit(3), Digit(9), Digit(4)>>,
      <<Digit(3), Digit(9), Digit(4), Ch.lbracket>>,
      <<Digit(4), Ch.dot, Ch.dot>>,
      <<Digit(1), Ch.space, Ch.quote, Ch.a, Ch.quote>>,
      <<Ch.x>>,
      <<Ch.quote, Ch.a, Ch.b, Ch.quote, Digit(1)>>,
      <<Ch.quote, Ch.a, Ch.b>>,
      <<Ch.quote, Ch.backslash, Ch.n, Ch.a, Ch.quote, Ch.space, Ch.lbrace>>,
      <<Ch.quote, Ch.backslash, Ch.x, Ch.quote>>,
      <<Ch.quote, Ch.backslash, Ch.u, Digit(0), Digit(0), Ch.e, Digit(9),
        Ch.quote>>,
      <<Ch.quote, Ch.backslash, Ch.u, Digit(2), Digit(1), Digit(9), Digit(0),
        Ch.a, Ch.quote, Ch.t, Ch.r, Ch.u, Ch.e>>,
      <<Ch.quote, Ch.backslash, Ch.u, Ch.D, Digit(8), Digit(3), Digit(4),
        Ch.backslash, Ch.u, Ch.D, Ch.D, Digit(1), Ch.E, Ch.quote>>,
      <<Ch.quote, Ch.backslash, Ch.u, Ch.D, Digit(8), Digit(3), Digit(4),
        Ch.quote>>,
      <<Ch.quote, Ch.a, Ch.backslash, Ch.quote, Ch.b, Ch.quote, Digit(1)>>,
      <<Ch.quote, Ch.backslash, Ch.backslash, Ch.quote, Ch.comma, Ch.quote,
        Ch.quote>>,
      <<Digit(1), Ch.space, Digit(2), Ch.lbracket>> }

Init ==
    \E bytes \in CallStreams, ending \in CleanEndings \cup FailingEndings :
    \E cuts \in Cuts(Len(bytes)) :
        Start(Source(bytes, cuts, ending[1], ending[2]),
              [bytes |-> bytes, cuts |-> cuts, ending |-> ending])

Next == DoToken \/ DoStringReader \/ \E k \in 1..MaxRead : DoRead(k)

Spec == Init /\ [][Next]_vars

\* ------------------------------------------------------------------ properties

LastResult == results[Len(results)]

Called(op) == Len(results) > 0 /\ LastResult.op = op

IsPrefix(a, b) == Len(a) <= Len(b) /\ SubSeq(b, 1, Len(a)) = a

RECURSIVE ReadsData(_)
ReadsData(reads) ==
    IF reads = <<>> THEN <<>> ELSE Head(reads).data \o ReadsData(Tail(reads))

\* The bytes the cursor of dec has still to hand out.
Remaining(dec) ==
    (IF dec.preparedValid THEN <<dec.preparedByte>> ELSE <<>>)
    \o SubSeq(dec.buffer, dec.offset + 1, Len(dec.buffer))
    \o ReadsData(dec.source.reads)

RECURSIVE FirstSignificant(_)
\* The first byte of bytes that is no separator, -1 if there is none.
FirstSignificant(bytes) ==
    IF bytes = <<>> THEN 0 - 1
    ELSE IF IsSeparator(Head(bytes)) THEN FirstSignificant(Tail(bytes))
    ELSE Head(bytes)

RECURSIVE Outcomes(_, _)
\* What the next n Token() calls on dec return: token and kind of error.
Outcomes(dec, n) ==
    IF n = 0 THEN <<>>
    ELSE Bind(Token(BeginCall(dec)), LAMBDA x :
           <<[token |-> x.token, err |-> x.err.kind]>> \o Outcomes(x.d, n - 1))

RECURSIVE Replay(_, _, _)
\* The results of the calls of history (their op and k) made on dec and rd.
Replay(dec, rd, history) ==
    IF history = <<>> THEN <<>>
    ELSE Bind(Call(dec, rd, Head(history).op, Head(history).k), LAMBDA x :
           <<x.res>> \o Replay(x.d, x.r, Tail(history)))

\* C2: whenever the byte source fails with an error other than end-of-stream
\* during a call (Token, StringReader or Read), the call returns that very
\* error value.
C2_SourceErrorUnchanged ==
    (Len(results) > 0 /\ d.srcErr # NoErr) => LastResult.err = d.srcErr

\* C3: a Read call on a string reader that has seen the closing quote returns
\* zero bytes and io.EOF, writes nothing, pulls no byte from the cursor and
\* leaves the reader exhausted.
C3_ExhaustedReaderStaysExhausted ==
    [][ (r.eof /\ Len(results') = Len(results) + 1
               /\ results'[Len(results')].op = "Read")
        => /\ results'[Len(results')].n = 0
           /\ results'[Len(results')].p = <<>>
           /\ results'[Len(results')].err = EOF
           /\ d'.log = <<>>
           /\ Remaining(d') = Remaining(d)
           /\ r'.eof ]_vars

\* A Read call was made on a reader that an earlier Read had exhausted.
C3_Witness ==
    \E i \in 1..(Len(results) - 1) :
        /\ results[i].op = "Read" /\ results[i].err = EOF
        /\ results[i + 1].op = "Read" /\ results[i + 1].err = EOF
        /\ Remaining(d) # <<>>

\* C4: when StringReader() is called and the next significant byte is not a
\* quote, it returns ErrNotString, and the Token() calls that follow return
\* the tokens (and the kinds of error) they would have returned without it.
C4_NotStringLeavesToken ==
    (Called("StringReader")
       /\ FirstSignificant(Remaining(last)) \notin {0 - 1, Ch.quote})
    => /\ LastResult.err = ErrNotString
       /\ Outcomes(d, MaxCalls) = Outcomes(last, MaxCalls)

\* StringReader() has returned ErrNotString in front of a token that the
\* next Token() call returns.
C4_Witness ==
    \E i \in 1..(Len(results) - 1) :
        /\ results[i].op = "StringReader" /\ results[i].err = ErrNotString
        /\ results[i + 1].op = "Token" /\ results[i + 1].err = NoErr
        /\ results[i + 1].token.type = "int64"

\* C5: Token() and StringReader() return io.EOF only when the call consumed
\* nothing but separators; a call that meets end-of-stream after the first
\* byte of a literal or of a string, or a Read that meets it inside the
\* string body, returns a decode error, which is not io.EOF.
C5_PrematureEOFIsError ==
    /\ (Len(results) > 0 /\ LastResult.op \in {"Token", "StringReader"}
          /\ LastResult.err = EOF)
       => \A i \in 1..Len(d.log) : IsSeparator(d.log[i])
    /\ (Called("Token") /\ d.hitEOF
          /\ FirstSignificant(d.log) \in {Ch.t, Ch.f, Ch.n, Ch.quote})
       => LastResult.err.kind = "text"
    /\ (Called("Read") /\ d.hitEOF) => LastResult.err.kind = "text"

\* Token() met end-of-stream inside a string body and returned a decode error.
C5_Witness ==
    /\ Called("Token")
    /\ d.hitEOF
    /\ FirstSignificant(d.log) = Ch.quote
    /\ Len(d.log) > 2
    /\ LastResult.err.kind = "text"

\* C9: the bytes the Read calls on the reader from StringReader() have
\* returned are a prefix of the string Token() returns for the same input, and
\* all of it once the reader is exhausted; a Read call fails only if Token()
\* fails, and Token() fails only if the reader is not exhausted without a
\* failure.
C9_EagerEqualsLazy ==
    r.step # "none" =>
      \A eager \in {Token(BeginCall(rh.origin))} :
        /\ rh.failed => eager.err # NoErr
        /\ r.eof => (eager.err = NoErr /\ eager.token = String(rh.got))
        /\ eager.err = NoErr => IsPrefix(rh.got, eager.token.val)

\* A reader was drained by Read calls that split the bytes of one unicode
\* escape between them.
C9_Witness ==
    /\ r.step # "none" /\ r.eof
    /\ \E i \in 1..Len(results) :
         /\ results[i].op = "Read"
         /\ results[i].n > 0
         /\ results[i].p[results[i].n] >= 192

\* C10: the results of the calls made so far are the results the same calls
\* have when the source returns the whole stream in one read.
C10_SplitIndependent ==
    results = Replay(NewDecoder(Source(stream.bytes, {}, NoErr, stream.ending[2])),
                     NoReader, results)

\* The stream was split, a number ended at the end of a read, and the byte
\* after it is pending while the buffer is used up.
C10_Witness ==
    /\ stream.cuts # {}
    /\ Called("Token") /\ LastResult.token.type = "int64"
    /\ d.preparedValid
    /\ d.offset = Len(d.buffer)
    /\ d.source.reads # <<>>

RECURSIVE StripSeparators(_)
\* bytes without the separators in front.
StripSeparators(bytes) ==
    IF bytes = <<>> THEN <<>>
    ELSE IF IsSeparator(Head(bytes)) THEN StripSeparators(Tail(bytes))
    ELSE bytes

RECURSIVE BehindQuote(_, _)
\* The bytes behind the first quote of bytes that no backslash escapes;
\* escaping tells whether the byte in front was an escaping backslash.
BehindQuote(bytes, escaping) ==
    IF bytes = <<>> THEN [found |-> FALSE, rest |-> <<>>]
    ELSE IF escaping THEN BehindQuote(Tail(bytes), FALSE)
    ELSE IF Head(bytes) = Ch.backslash THEN BehindQuote(Tail(bytes), TRUE)
    ELSE IF Head(bytes) = Ch.quote THEN [found |-> TRUE, rest |-> Tail(bytes)]
    ELSE BehindQuote(Tail(bytes), FALSE)

\* The input behind the string that input starts with, separators aside.
BehindString(input) == BehindQuote(Tail(StripSeparators(input)), FALSE)

\* The calls made since the last StringReader() that handed out a reader
\* are Read calls, at least one.
ReadsOnlySinceReader ==
    /\ Called("Read")
    /\ \E j \in 1..Len(results) :
         /\ results[j].op = "StringReader" /\ results[j].err = NoErr
         /\ \A i \in (j + 1)..Len(results) : results[i].op = "Read"

\* C14: when Token() has returned a string, or Read calls have exhausted a
\* string reader, the input left is exactly what follows the closing quote of
\* that string, and no byte is pending in the pushback slot.
C14_ConsumesThroughClosingQuote ==
    /\ (Called("Token") /\ LastResult.err = NoErr
          /\ LastResult.token.type = "string")
       => /\ BehindString(Remaining(last)).found
          /\ Remaining(d) = BehindString(Remaining(last)).rest
          /\ ~d.preparedValid
    /\ (ReadsOnlySinceReader /\ r.eof)
       => /\ BehindString(Remaining(rh.origin)).found
          /\ Remaining(d) = BehindString(Remaining(rh.origin)).rest
          /\ ~d.preparedValid

\* A string with an escaped quote in it has been read, by Read calls of one
\* byte, up to its closing quote, and input is left behind it.
C14_Witness ==
    /\ ReadsOnlySinceReader /\ r.eof
    /\ LastResult.k = 1
    /\ \E i \in 1..Len(rh.got) : rh.got[i] = Ch.quote
    /\ Remaining(d) # <<>>

\* C15: undo() is never called while a byte is pending in the pushback slot.
C15_PushbackNeverOverwritten == ~d.clobber

\* StringReader() has pushed back the first byte of a number, Token() has
\* read the number and pushed back the byte behind it.
C15_Witness ==
    /\ d.preparedValid
    /\ \E i \in 1..(Len(results) - 1) :
         /\ results[i].op = "StringReader" /\ results[i].err = ErrNotString
         /\ results[i + 1].op = "Token"
         /\ results[i + 1].token.type = "int64"
         /\ i + 1 = Len(results)

\* The decoded bytes that await emission: r.outputBuffer.
Queue(rd) == SubSeq(rd.memory, rd.outputBuffer.lo + 1, rd.outputBuffer.hi)

Shorter(a, b) == IF a < b THEN a ELSE b

\* With bytes queued, a turn of Read's loop emits the first of them and
\* touches neither the cursor nor the accumulator.
TurnDrains(dec, rd) ==
    \A k \in 1..MaxRead : \A t \in {ReadTurn(dec, rd, <<>>, k)} :
        /\ t.d = dec
        /\ t.p = <<Head(Queue(rd))>>
        /\ Queue(t.r) = Tail(Queue(rd))
        /\ t.r.memory = rd.memory
        /\ t.err = NoErr

\* C16: the queue never holds more than 4 bytes; a Read call that finds
\* bytes queued writes them first, as they are and in order, pulls no byte
\* from the cursor unless its buffer has room behind them, and leaves queued
\* what did not fit; and in every state with bytes queued the next turn of
\* Read's loop takes the first of them and leaves cursor and accumulator
\* alone.
C16_QueueDrainedBeforePull ==
    [][ /\ Len(Queue(r')) <= 4
        /\ Queue(r') # <<>> => TurnDrains(d', r')
        /\ (Len(results') = Len(results) + 1
              /\ results'[Len(results')].op = "Read" /\ Queue(r) # <<>>)
           => /\ IsPrefix(SubSeq(Queue(r), 1,
                                 Shorter(results'[Len(results')].k, Len(Queue(r)))),
                          results'[Len(results')].p)
              /\ Len(Queue(r)) >= results'[Len(results')].k
                 => /\ d'.log = <<>>
                    /\ Remaining(d') = Remaining(d)
                    /\ Queue(r') = SubSeq(Queue(r), results'[Len(results')].k + 1,
                                          Len(Queue(r))) ]_vars

\* The four bytes of a surrogate pair are read by Read calls of one byte:
\* two have been returned, two are queued.
C16_Witness ==
    /\ Len(results) > 2
    /\ results[Len(results) - 1].op = "Read" /\ results[Len(results) - 1].p = <<240>>
    /\ LastResult.op = "Read" /\ LastResult.k = 1 /\ LastResult.p = <<157>>
    /\ Queue(r) = <<132, 158>>

RECURSIVE SkipPart(_)
\* The bytes of log that went to the separator skipper: the separators in
\* front and the first byte that is none.
SkipPart(log) ==
    IF log = <<>> THEN <<>>
    ELSE IF IsSeparator(Head(log)) THEN <<Head(log)>> \o SkipPart(Tail(log))
    ELSE <<Head(log)>>

LineFeeds(bytes) == Cardinality({i \in 1..Len(bytes) : bytes[i] = Ch.lf})

\* The number of bytes behind the last line feed of bytes.
BehindLineFeed(bytes) ==
    Len(bytes) - CHOOSE i \in 1..Len(bytes) :
                   bytes[i] = Ch.lf /\ \A j \in (i + 1)..Len(bytes) : bytes[j] # Ch.lf

\* The pending byte was pushed back by StringReader(), which had it from the
\* skipper.
PendingWasSkipped ==
    /\ d.preparedValid
    /\ \E j \in 1..Len(results) :
         /\ results[j].op = "StringReader" /\ results[j].err = ErrNotString
         /\ \A i \in (j + 1)..Len(results) : results[i].op = "Read"

\* line and column move from dec to dec1 as for the skipped bytes.
Counted(dec, dec1, skipped) ==
    /\ dec1.line = dec.line + LineFeeds(skipped)
    /\ dec1.column = IF LineFeeds(skipped) > 0 THEN 1 + BehindLineFeed(skipped)
                     ELSE dec.column + Len(skipped)

\* C17: a Token() or StringReader() call moves line and column by the bytes
\* its skipper consumed, a byte of the stream that the skipper consumed
\* before and StringReader() pushed back not counted again; a Read call
\* leaves line and column alone.
C17_EachSkippedByteCountedOnce ==
    [][ Len(results') = Len(results) + 1 =>
          IF results'[Len(results')].op = "Read"
          THEN d'.line = d.line /\ d'.column = d.column
          ELSE Counted(d, d', IF PendingWasSkipped THEN Tail(SkipPart(d'.log))
                              ELSE SkipPart(d'.log)) ]_vars

\* C17, as the code keeps it: every byte the skipper is handed is counted,
\* a pushed-back byte once more.
C17_EachSkipperReadCounted ==
    [][ Len(results') = Len(results) + 1 =>
          IF results'[Len(results')].op = "Read"
          THEN d'.line = d.line /\ d'.column = d.column
          ELSE Counted(d, d', SkipPart(d'.log)) ]_vars

\* C18: the count a Read call returns is the number of bytes it has written
\* to the caller's buffer, whether it returns an error or not.
C18_CountIsBytesWritten ==
    \A i \in 1..Len(results) :
        results[i].op = "Read" => results[i].n = Len(results[i].p)

\* C18, as the code keeps it: the count is the number of bytes written
\* unless the cursor failed or ran out of input during the call; then it
\* is 0, whatever was written.
C18_CountLostWhenCursorFails ==
    Called("Read") =>
        LastResult.n = IF d.srcErr # NoErr \/ d.hitEOF THEN 0 ELSE Len(LastResult.p)

\* ------------------------------------------------------------------ SpecWellFormed

MaxTokens == 2

\* Valid tokens as they are written, with the token each one stands for.
ValidTokens ==
    { [text |-> <<Ch.lbracket>>, token |-> [type |-> "Delim", val |-> <<91>>]],
      [text |-> <<Ch.rbrace>>, token |-> [type |-> "Delim", val |-> <<125>>]],
      [text |-> <<Ch.f, Ch.a, Ch.l, Ch.s, Ch.e>>,
       token |-> [type |-> "bool", val |-> <<0>>]],
      [text |-> <<Ch.n, Ch.u, Ch.l, Ch.l>>, token |-> [type |-> "nil", val |-> <<>>]],
      [text |-> <<Digit(1), Digit(1)>>, token |-> [type |-> "int64", val |-> <<0, 1, 1>>]],
      [text |-> <<Ch.minus, Digit(3), Digit(9), Digit(4)>>,
       token |-> [type |-> "int64", val |-> <<1, 3, 9, 4>>]],
      [text |-> <<Digit(2), Ch.dot, Digit(2)>>,
       token |-> [type |-> "float64", val |-> <<0, 1, 2, 2>>]],
      [text |-> <<Ch.quote, Ch.b, Ch.backslash, Ch.n, Ch.quote>>,
       token |-> [type |-> "string", val |-> <<98, 10>>]] }

\* Separator runs: every single separator, and some mixtures.
SeparatorRuns ==
    { <<Ch.space>>, <<Ch.tab>>, <<Ch.cr>>, <<Ch.lf>>, <<Ch.comma>>, <<Ch.colon>>,
      <<Ch.comma, Ch.space>>, <<Ch.cr, Ch.lf>>,
      <<Ch.colon, Ch.tab, Ch.lf, Ch.comma>> }

EdgeRuns == { <<>>, <<Ch.lf>>, <<Ch.space, Ch.comma>> }

RECURSIVE Join(_, _)
\* The texts of toks with the run sep between each two.
Join(toks, sep) ==
    IF Len(toks) = 1 THEN toks[1].text
    ELSE toks[1].text \o sep \o Join(Tail(toks), sep)

InitWellFormed ==
    \E n \in 1..MaxTokens :
    \E toks \in [1..n -> ValidTokens], sep \in SeparatorRuns, edge \in EdgeRuns :
    \E bytes \in {edge \o Join(toks, sep) \o edge} :
    \E cuts \in {{}, 1..(Len(bytes) - 1)} :
        Start(Source(bytes, cuts, NoErr, EOF),
              [bytes |-> bytes, cuts |-> cuts, ending |-> <<NoErr, EOF>>,
               tokens |-> toks, sep |-> sep])

SpecWellFormed == InitWellFormed /\ [][DoToken]_vars

\* C1: on an input of valid tokens with a non-empty separator run between
\* each two, and a separator run or nothing before the first and after the
\* last, the i-th Token() call returns the i-th token, and every call after
\* the last token returns io.EOF, whatever the separator runs are.
C1_TokensInOrder ==
    \A i \in 1..Len(results) :
        IF i <= Len(stream.tokens)
        THEN results[i].err = NoErr /\ results[i].token = stream.tokens[i].token
        ELSE results[i].err = EOF /\ results[i].token = NoToken

\* Two tokens, a number first, with a mixed separator run between them have
\* been returned, and then end-of-input.
C1_Witness ==
    /\ Len(stream.tokens) = 2
    /\ Len(results) = 3
    /\ Len(stream.sep) > 2
    /\ results[1].token.type = "float64"
    /\ results[2].token.type = "string"
    /\ results[3].err = EOF

\* ------------------------------------------------------------------ SpecRoundTrip

MaxText == 2

\* Code points with their UTF-8 encoding.
Alphabet ==
    { [cp |-> 97, utf8 |-> <<97>>],
      [cp |-> 34, utf8 |-> <<34>>],
      [cp |-> 92, utf8 |-> <<92>>],
      [cp |-> 47, utf8 |-> <<47>>],
      [cp |-> 8, utf8 |-> <<8>>],
      [cp |-> 12, utf8 |-> <<12>>],
      [cp |-> 10, utf8 |-> <<10>>],
      [cp |-> 13, utf8 |-> <<13>>],
      [cp |-> 9, utf8 |-> <<9>>],
      [cp |-> 233, utf8 |-> <<195, 169>>],
      [cp |-> 2047, utf8 |-> <<223, 191>>],
      [cp |-> 8592, utf8 |-> <<226, 134, 144>>],
      [cp |-> 65535, utf8 |-> <<239, 191, 191>>],
      [cp |-> 65536, utf8 |-> <<240, 144, 128, 128>>],
      [cp |-> 119070, utf8 |-> <<240, 157, 132, 158>>],
      [cp |-> 1114111, utf8 |-> <<244, 143, 191, 191>>] }

HexDigit(v, upper) ==
    IF v < 10 THEN Ch.zero + v ELSE (IF upper THEN Ch.A ELSE Ch.a) + (v - 10)

\* The six bytes \uXXXX of a 16-bit code unit.
U4(unit, upper) ==
    <<Ch.backslash, Ch.u, HexDigit(unit \div 4096, upper),
      HexDigit((unit \div 256) % 16, upper), HexDigit((unit \div 16) % 16, upper),
      HexDigit(unit % 16, upper)>>

\* The single-letter escape of a code point, <<>> if it has none.
ShortEscape(cp) ==
    CASE cp = 34 -> <<Ch.backslash, Ch.quote>>
      [] cp = 92 -> <<Ch.backslash, Ch.backslash>>
      [] cp = 47 -> <<Ch.backslash, Ch.slash>>
      [] cp = 8  -> <<Ch.backslash, Ch.b>>
      [] cp = 12 -> <<Ch.backslash, Ch.f>>
      [] cp = 10 -> <<Ch.backslash, Ch.n>>
      [] cp = 13 -> <<Ch.backslash, Ch.r>>
      [] cp = 9  -> <<Ch.backslash, Ch.t>>
      [] OTHER   -> <<>>

\* The \uXXXX escape of a code point: one unit in the basic plane, a high and
\* a low surrogate above it.
UnicodeEscape(cp, upper) ==
    IF cp < 65536 THEN U4(cp, upper)
    ELSE U4(55296 + ((cp - 65536) \div 1024), upper)
         \o U4(56320 + ((cp - 65536) % 1024), upper)

\* The ways to write the character c in a string body.
Escapes(c) ==
    (IF c.cp \in {34, 92} THEN {} ELSE {c.utf8})
    \cup (IF ShortEscape(c.cp) = <<>> THEN {} ELSE {ShortEscape(c.cp)})
    \cup {UnicodeEscape(c.cp, TRUE), UnicodeEscape(c.cp, FALSE)}

Written == {[c |-> c, as |-> e] : c \in Alphabet, e \in UNION {Escapes(c1) : c1 \in Alphabet}}

Letters == {w \in Written : w.as \in Escapes(w.c)}

\* The text as it is written, and its UTF-8 bytes.
WrittenAs(text) == Flatten([i \in 1..Len(text) |-> text[i].as])

Utf8(text) == Flatten([i \in 1..Len(text) |-> text[i].c.utf8])

InitRoundTrip ==
    \E n \in 0..MaxText :
    \E text \in [1..n -> Letters] :
    \E body \in {WrittenAs(text)} :
        Start(Source(<<Ch.quote>> \o body \o <<Ch.quote>>, {}, NoErr, EOF),
              [bytes |-> <<Ch.quote>> \o body \o <<Ch.quote>>, cuts |-> {},
               ending |-> <<NoErr, EOF>>, text |-> text])

\* The escaped text is decoded by one Token() call.
Decode == results = <<>> /\ DoToken

SpecRoundTrip == InitRoundTrip /\ [][Decode]_vars

\* C6: decoding the escaped text yields the UTF-8 bytes of the text.
C6_RoundTrip ==
    results # <<>> =>
        /\ results[1].err = NoErr
        /\ results[1].token.type = "string"
        /\ results[1].token.val = Utf8(stream.text)

\* A text of a supplementary code point written as a surrogate pair and a
\* control character written as a single-letter escape has been decoded.
C6_Witness ==
    /\ results # <<>>
    /\ Len(stream.text) = 2
    /\ stream.text[1].c.cp > 65535
    /\ Len(stream.text[1].as) = 12
    /\ stream.text[2].c.cp < 32
    /\ Len(stream.text[2].as) = 2
    /\ Len(results[1].token.val) = 5

\* ------------------------------------------------------------------ SpecNumber

NumSlack == 2

\* Runs of n number-class bytes with the token readNumber makes of them if
\* they fit the scratch buffer, NoToken if no number is written so.
NumberRuns(n) ==
    { [text |-> Repeat(Ch.zero, n - 1) \o <<Digit(1)>>,
       token |-> [type |-> "int64", val |-> <<0, 1>>]],
      [text |-> <<Ch.minus>> \o Repeat(Ch.zero, n - 2) \o <<Digit(7)>>,
       token |-> [type |-> "int64", val |-> <<1, 7>>]],
      [text |-> <<Digit(1), Ch.dot>> \o Repeat(Ch.zero, n - 2),
       token |-> [type |-> "float64", val |-> <<0, 1, 1>>]],
      [text |-> <<Digit(2), Ch.e>> \o Repeat(Ch.zero, n - 3) \o <<Digit(3)>>,
       token |-> [type |-> "float64", val |-> <<0, 4, 2>>]],
      [text |-> <<Digit(2), Ch.E, Ch.minus>> \o Repeat(Ch.zero, n - 4) \o <<Digit(1)>>,
       token |-> [type |-> "float64", val |-> <<0, 0, 2>>]],
      [text |-> Repeat(Ch.nine, n), token |-> NoToken],
      [text |-> Repeat(Ch.minus, n), token |-> NoToken],
      [text |-> Repeat(Ch.dot, n), token |-> NoToken] }

\* What follows the run: nothing, or a byte that is not of the number class.
Followers ==
    { [text |-> <<>>, token |-> NoToken],
      [text |-> <<Ch.space>>, token |-> NoToken],
      [text |-> <<Ch.rbracket>>, token |-> Delim(Ch.rbracket)],
      [text |-> <<Ch.quote, Ch.quote>>, token |-> String(<<>>)] }

InitNumber ==
    \E n \in (numberBufferLen - NumSlack)..(numberBufferLen + NumSlack) :
    \E run \in NumberRuns(n), after \in Followers :
    \E bytes \in {run.text \o after.text} :
    \E cuts \in {{}, 1..(Len(bytes) - 1), {numberBufferLen}} :
        Start(Source(bytes, cuts, NoErr, EOF),
              [bytes |-> bytes, cuts |-> cuts, ending |-> <<NoErr, EOF>>,
               run |-> run, after |-> after])

SpecNumber == InitNumber /\ [][DoToken]_vars

TooLong(e) == e.kind = "text" /\ e.text[Len(e.text)] = "number is too long"

\* C7: a number of at most 64 bytes that can be converted is returned as its
\* token, before end-of-stream and before a byte that is no part of a number,
\* and that byte starts the next token; a run of 65 or more number-class
\* bytes makes the call fail with "number is too long" after it has taken
\* just 65 bytes, and no token is returned, whatever the run is.
C7_NumberBufferBoundary ==
    results # <<>> =>
      IF Len(stream.run.text) <= numberBufferLen
      THEN /\ stream.run.token # NoToken =>
                results[1].err = NoErr /\ results[1].token = stream.run.token
           /\ stream.run.token = NoToken =>
                results[1].err.kind = "text" /\ ~TooLong(results[1].err)
           /\ Len(results) > 1 =>
                IF stream.after.token = NoToken
                THEN results[2].err = EOF
                ELSE results[2].err = NoErr /\ results[2].token = stream.after.token
      ELSE /\ TooLong(results[1].err)
           /\ results[1].token = NoToken
           /\ Len(results) = 1 =>
                Len(Remaining(d)) = Len(stream.bytes) - (numberBufferLen + 1)

\* A float of 65 bytes, which could be converted, has been refused.
C7_Witness ==
    /\ Len(results) = 1
    /\ Len(stream.run.text) = numberBufferLen + 1
    /\ stream.run.token.type = "float64"
    /\ stream.after.text # <<>>
    /\ TooLong(results[1].err)

\* A number of exactly 64 bytes has been returned, and the delimiter behind
\* it after it.
C7_WitnessFull ==
    /\ Len(results) = 2
    /\ Len(stream.run.text) = numberBufferLen
    /\ results[1].token.type = "int64"
    /\ results[2].token = Delim(Ch.rbracket)

\* ------------------------------------------------------------------ SpecSurrogate

\* Code units: high surrogates, and the units that follow them.
HighSurrogates == {55296, 55348, 56319}

LowSurrogates == {56320, 56606, 57343}

OtherUnits == {32, 55295, 57344, 65535}

\* The UTF-8 bytes of the code point of the pair hi, lo.
PairUtf8(hi, lo) ==
    <<240 + ((hi - 55296 + 64) \div 256),
      128 + (((hi - 55296 + 64) \div 4) % 64),
      128 + ((hi - 55296) % 4) * 16 + ((lo - 56320) \div 64),
      128 + ((lo - 56320) % 64)>>

InitSurrogate ==
    \E hi \in HighSurrogates,
       second \in LowSurrogates \cup HighSurrogates \cup OtherUnits,
       upper \in BOOLEAN :
    \E bytes \in {<<Ch.quote>> \o U4(hi, upper) \o U4(second, upper)
                  \o <<Ch.quote>>} :
    \E cuts \in {{}, 1..(Len(bytes) - 1)} :
        Start(Source(bytes, cuts, NoErr, EOF),
              [bytes |-> bytes, cuts |-> cuts, ending |-> <<NoErr, EOF>>,
               hi |-> hi, second |-> second])

SpecSurrogate == InitSurrogate /\ [][Next]_vars

IncompletePair(e) ==
    e.kind = "text" /\ \E i \in 1..Len(e.text) : e.text[i] = "incomplete surrogate pair"

\* C8: in a string that is a high surrogate escape and a second unicode
\* escape, if the second unit is a low surrogate the string decoded is the
\* four UTF-8 bytes of the pair's code point; if it is anything else, Token()
\* and Read fail with "incomplete surrogate pair" and no byte is emitted.
C8_PendingHighNeedsLow ==
    /\ (results # <<>> /\ results[1].op = "Token") =>
         IF stream.second \in 56320..57343
         THEN results[1].err = NoErr
              /\ results[1].token = String(PairUtf8(stream.hi, stream.second))
         ELSE IncompletePair(results[1].err) /\ results[1].token = NoToken
    /\ (r.step # "none" /\ (r.eof \/ rh.failed)) =>
         IF stream.second \in 56320..57343
         THEN r.eof /\ ~rh.failed /\ rh.got = PairUtf8(stream.hi, stream.second)
         ELSE rh.failed /\ rh.got = <<>>
              /\ \E i \in 1..Len(results) : IncompletePair(results[i].err)

\* C8, as far as the code keeps it: a low surrogate completes the pair, and
\* a unit that is no surrogate at all is refused.
C8_LowCompletesOtherFails ==
    /\ (results # <<>> /\ results[1].op = "Token") =>
         /\ stream.second \in 56320..57343 =>
              /\ results[1].err = NoErr
              /\ results[1].token = String(PairUtf8(stream.hi, stream.second))
         /\ stream.second \notin 55296..57343 =>
              IncompletePair(results[1].err) /\ results[1].token = NoToken
    /\ (r.step # "none" /\ (r.eof \/ rh.failed)) =>
         /\ stream.second \in 56320..57343 =>
              r.eof /\ ~rh.failed /\ rh.got = PairUtf8(stream.hi, stream.second)
         /\ stream.second \notin 55296..57343 =>
              /\ rh.failed /\ rh.got = <<>>
              /\ \E i \in 1..Len(results) : IncompletePair(results[i].err)

\* A high surrogate followed by a high surrogate has been decoded by Token().
C8_Witness ==
    /\ results # <<>> /\ results[1].op = "Token"
    /\ stream.second \in 55296..56319

\* ------------------------------------------------------------------ SpecScan

\* Runs of number-class bytes with the token readNumber makes of them,
\* NoToken if the run is no number.
ScanRuns ==
    { [text |-> <<Digit(3), Digit(9), Digit(4)>>,
       token |-> [type |-> "int64", val |-> <<0, 3, 9, 4>>]],
      [text |-> <<Ch.minus, Digit(1)>>, token |-> [type |-> "int64", val |-> <<1, 1>>]],
      [text |-> <<Digit(0)>>, token |-> [type |-> "int64", val |-> <<0, 0>>]],
      [text |-> <<Digit(1), Ch.dot, Digit(5)>>,
       token |-> [type |-> "float64", val |-> <<0, 1, 1, 5>>]],
      [text |-> <<Digit(1), Ch.e, Digit(2)>>,
       token |-> [type |-> "float64", val |-> <<0, 3, 1>>]],
      [text |-> <<Digit(2), Ch.E, Ch.minus, Digit(1)>>,
       token |-> [type |-> "float64", val |-> <<0, 0, 2>>]],
      [text |-> <<Ch.dot, Digit(5)>>, token |-> [type |-> "float64", val |-> <<0, 0, 5>>]],
      [text |-> <<Digit(4), Ch.dot, Ch.dot>>, token |-> NoToken],
      [text |-> <<Ch.minus>>, token |-> NoToken],
      [text |-> <<Digit(1), Ch.minus, Digit(2)>>, token |-> NoToken],
      [text |-> <<Digit(1), Ch.e>>, token |-> NoToken],
      [text |-> <<Ch.minus, Ch.dot, Ch.E>>, token |-> NoToken] }

\* What follows the run, with what Token() returns for it (the token and the
\* kind of the error) and the error StringReader() returns for it.
ScanFollowers ==
    { [text |-> <<>>, token |-> NoToken, kind |-> "EOF", reader |-> EOF],
      [text |-> <<Ch.lf>>, token |-> NoToken, kind |-> "EOF", reader |-> EOF],
      [text |-> <<Ch.lbracket>>, token |-> Delim(Ch.lbracket), kind |-> "nil",
       reader |-> ErrNotString],
      [text |-> <<Ch.quote, Ch.a, Ch.quote>>, token |-> String(<<Ch.a>>),
       kind |-> "nil", reader |-> NoErr],
      [text |-> <<Ch.space, Digit(7)>>,
       token |-> [type |-> "int64", val |-> <<0, 7>>], kind |-> "nil",
       reader |-> ErrNotString],
      [text |-> <<Ch.t, Ch.r, Ch.u, Ch.e>>, token |-> Bool(TRUE), kind |-> "nil",
       reader |-> ErrNotString],
      [text |-> <<Ch.x>>, token |-> NoToken, kind |-> "text",
       reader |-> ErrNotString] }

InitScan ==
    \E run \in ScanRuns, after \in ScanFollowers :
    \E bytes \in {run.text \o after.text} :
    \E cuts \in {{}, 1..(Len(bytes) - 1), {Len(run.text)}} :
        Start(Source(bytes, cuts, NoErr, EOF),
              [bytes |-> bytes, cuts |-> cuts, ending |-> <<NoErr, EOF>>,
               run |-> run, after |-> after])

SpecScan == InitScan /\ [][Next]_vars

\* C11: Token() on a run of number-class bytes takes the whole run and
\* nothing else: the byte behind the run is pending in the pushback slot and
\* is the first byte the next Token() or StringReader() call sees; behind a
\* run that ends the stream nothing is pending and the next call returns
\* io.EOF.
C11_MaximalRunThenPushback ==
    (results # <<>> /\ results[1].op = "Token") =>
      /\ results[1].token = stream.run.token
      /\ results[1].err.kind = IF stream.run.token = NoToken THEN "text" ELSE "nil"
      /\ Len(results) = 1 =>
           /\ Remaining(d) = stream.after.text
           /\ d.preparedValid = (stream.after.text # <<>>)
           /\ d.preparedValid => d.preparedByte = stream.after.text[1]
      /\ (Len(results) > 1 /\ results[2].op = "Token") =>
           /\ results[2].token = stream.after.token
           /\ results[2].err.kind = stream.after.kind
      /\ (Len(results) > 1 /\ results[2].op = "StringReader") =>
           results[2].err = stream.after.reader

\* 394[ has been read as the integer 394 and then the delimiter.
C11_Witness ==
    /\ Len(results) = 2
    /\ stream.bytes = <<Digit(3), Digit(9), Digit(4), Ch.lbracket>>
    /\ results[1].token = [type |-> "int64", val |-> <<0, 3, 9, 4>>]
    /\ results[2].token = Delim(Ch.lbracket)

\* ------------------------------------------------------------------ SpecLiteral

\* The literals: the byte that announces each, the bytes that must follow,
\* and the token.
Literals ==
    { [lead |-> Ch.t, rest |-> <<Ch.r, Ch.u, Ch.e>>, token |-> Bool(TRUE)],
      [lead |-> Ch.f, rest |-> <<Ch.a, Ch.l, Ch.s, Ch.e>>, token |-> Bool(FALSE)],
      [lead |-> Ch.n, rest |-> <<Ch.u, Ch.l, Ch.l>>, token |-> Null] }

\* Bytes put in the place of a byte of a literal.
WrongBytes ==
    {Ch.x, Ch.space, Ch.quote, Ch.comma, Ch.E, Ch.e, Ch.l, Ch.u, Ch.r,
     Digit(1), 0, 255}

\* What follows a literal, with the token Token() returns for it.
LiteralTails ==
    { [text |-> <<>>, token |-> NoToken],
      [text |-> <<Ch.t, Ch.r, Ch.u, Ch.e>>, token |-> Bool(TRUE)],
      [text |-> <<Ch.n, Ch.u, Ch.l, Ch.l>>, token |-> Null],
      [text |-> <<Ch.rbrace>>, token |-> Delim(Ch.rbrace)],
      [text |-> <<Ch.space, Digit(1)>>, token |-> [type |-> "int64", val |-> <<0, 1>>]],
      [text |-> <<Ch.quote, Ch.e, Ch.quote>>, token |-> String(<<Ch.e>>)] }

\* The stream: the lead, the first m bytes of the rest, the byte wrong (none
\* if it is -1) and the tail.
LiteralStream(lit, m, wrong, tail) ==
    <<lit.lead>> \o SubSeq(lit.rest, 1, m)
    \o (IF wrong < 0 THEN <<>> ELSE <<wrong>>) \o tail.text

InitLiteral ==
    \E lit \in Literals, tail \in LiteralTails :
    \E m \in 0..Len(lit.rest) :
    \E wrong \in IF m = Len(lit.rest) THEN {0 - 1}
                 ELSE {0 - 1} \cup (WrongBytes \ {lit.rest[m + 1]}) :
    \E bytes \in {LiteralStream(lit, m, wrong, tail)} :
    \E cuts \in {{}, 1..(Len(bytes) - 1)} :
        /\ (wrong < 0 /\ m < Len(lit.rest)) => tail.text = <<>>
        /\ Start(Source(bytes, cuts, NoErr, EOF),
                 [bytes |-> bytes, cuts |-> cuts, ending |-> <<NoErr, EOF>>,
                  lit |-> lit, m |-> m, wrong |-> wrong, tail |-> tail])

SpecLiteral == InitLiteral /\ [][Next]_vars

Mentions(e, word) == \E i \in 1..Len(e.text) : e.text[i] = word

\* C12: behind t, f or n, Token() returns true, false or null if and only if
\* the bytes rue, alse or ull follow; it then leaves the input behind the
\* literal untouched, with nothing pending, and the next Token() returns the
\* token that follows.  A byte that differs makes it fail with an error that
\* names that byte, the end of the stream inside the literal with an error
\* that says so, and no token is returned.
C12_LiteralMatching ==
    (results # <<>> /\ results[1].op = "Token") =>
      IF stream.m = Len(stream.lit.rest)
      THEN /\ results[1].err = NoErr
           /\ results[1].token = stream.lit.token
           /\ Len(results) = 1 =>
                Remaining(d) = stream.tail.text /\ ~d.preparedValid
           /\ (Len(results) > 1 /\ results[2].op = "Token") =>
                results[2].token = stream.tail.token
      ELSE /\ results[1].token = NoToken
           /\ results[1].err.kind = "text"
           /\ IF stream.wrong < 0
              THEN Mentions(results[1].err, "unexpected EOF while reading literal")
              ELSE /\ Mentions(results[1].err, "unexpected input while reading literal")
                   /\ Mentions(results[1].err, ToString(stream.wrong))

\* nulltrue has been read as null and then true.
C12_Witness ==
    /\ Len(results) = 2
    /\ stream.bytes = <<Ch.n, Ch.u, Ch.l, Ch.l, Ch.t, Ch.r, Ch.u, Ch.e>>
    /\ results[1].token = Null /\ results[1].err = NoErr
    /\ results[2].token = Bool(TRUE) /\ results[2].err = NoErr

\* ------------------------------------------------------------------ SpecLoneUnit

\* Code units with the UTF-8 bytes of the code point each is on its own; a
\* surrogate on its own is encoded as U+FFFD.
LoneUnits ==
    { [unit |-> 0, utf8 |-> <<0>>],
      [unit |-> 65, utf8 |-> <<65>>],
      [unit |-> 233, utf8 |-> <<195, 169>>],
      [unit |-> 2047, utf8 |-> <<223, 191>>],
      [unit |-> 2048, utf8 |-> <<224, 160, 128>>],
      [unit |-> 8592, utf8 |-> <<226, 134, 144>>],
      [unit |-> 55295, utf8 |-> <<237, 159, 191>>],
      [unit |-> 55296, utf8 |-> <<239, 191, 189>>],
      [unit |-> 56319, utf8 |-> <<239, 191, 189>>],
      [unit |-> 56320, utf8 |-> <<239, 191, 189>>],
      [unit |-> 56606, utf8 |-> <<239, 191, 189>>],
      [unit |-> 57343, utf8 |-> <<239, 191, 189>>],
      [unit |-> 57344, utf8 |-> <<238, 128, 128>>],
      [unit |-> 65535, utf8 |-> <<239, 191, 191>>] }

InitLoneUnit ==
    \E u \in LoneUnits, upper \in BOOLEAN, tail \in {<<>>, <<Ch.a>>, <<Ch.a, Ch.b>>} :
    \E bytes \in {<<Ch.quote>> \o U4(u.unit, upper) \o tail \o <<Ch.quote>>} :
    \E cuts \in {{}, 1..(Len(bytes) - 1)} :
        Start(Source(bytes, cuts, NoErr, EOF),
              [bytes |-> bytes, cuts |-> cuts, ending |-> <<NoErr, EOF>>,
               u |-> u, tail |-> tail])

SpecLoneUnit == InitLoneUnit /\ [][Next]_vars

IsHigh(unit) == unit \in 55296..56319

IsLow(unit) == unit \in 56320..57343

\* The string is the encoding of the unit, of 1 to 3 bytes, and the tail.
LoneUnitDecoded(val) ==
    /\ Len(val) - Len(stream.tail) \in 1..3
    /\ SubSeq(val, Len(val) - Len(stream.tail) + 1, Len(val)) = stream.tail
    /\ ~IsLow(stream.u.unit) => val = stream.u.utf8 \o stream.tail

\* The calls so far are StringReader() and Read calls on its reader, and the
\* reader is exhausted or has failed.
OnlyReaderDone ==
    /\ results # <<>> /\ results[1].op = "StringReader"
    /\ \A i \in 2..Len(results) : results[i].op = "Read"
    /\ r.eof \/ rh.failed

\* C13: a string that holds one unicode escape, no surrogate pending, and
\* plain bytes behind it: unless the unit is a high surrogate, a low
\* surrogate included, the unit is encoded on its own, the plain bytes follow
\* it and the string ends without an error, by Token() and by Read calls.
C13_OnlyHighEntersContinuation ==
    ~IsHigh(stream.u.unit) =>
      /\ (results # <<>> /\ results[1].op = "Token") =>
           /\ results[1].err = NoErr
           /\ results[1].token.type = "string"
           /\ LoneUnitDecoded(results[1].token.val)
      /\ OnlyReaderDone =>
           /\ r.eof /\ ~rh.failed
           /\ r.step = "defaultStep"
           /\ LoneUnitDecoded(rh.got)

\* C13, as far as the code keeps it: a unit that is no surrogate at all is
\* encoded on its own; behind a surrogate, high or low, the decoder wants a
\* second escape and refuses the plain byte or the quote it finds.
C13_AnySurrogateEntersContinuation ==
    /\ (results # <<>> /\ results[1].op = "Token") =>
         IF stream.u.unit \in 55296..57343
         THEN /\ results[1].token = NoToken
              /\ \E i \in 1..Len(results[1].err.text) :
                   results[1].err.text[i]
                     = "expected '\\' for second surrogate, got bad byte"
         ELSE results[1].err = NoErr
              /\ results[1].token = String(stream.u.utf8 \o stream.tail)
    /\ OnlyReaderDone =>
         IF stream.u.unit \in 55296..57343
         THEN rh.failed /\ rh.got = <<>> /\ r.step = "surrogateEscape"
         ELSE r.eof /\ rh.got = stream.u.utf8 \o stream.tail

\* ------------------------------------------------------------------ SpecCursor

CursorStreams ==
    { <<Digit(1), Digit(2)>>,
      <<Digit(1), Ch.space, Digit(2)>>,
      <<Ch.quote, Ch.a, Ch.b, Ch.quote>>,
      <<Ch.quote, Ch.backslash, Ch.n, Ch.quote, Digit(1)>>,
      <<Ch.t, Ch.r, Ch.u, Ch.e>>,
      <<Ch.lbracket, Digit(1), Ch.rbracket>>,
      <<Ch.space, Ch.lf>> }

\* The source src with a read of zero bytes and no error in front of its
\* read number g + 1; src itself if g is -1.
WithEmptyRead(src, g) ==
    IF g < 0 THEN src
    ELSE [src EXCEPT !.reads = SubSeq(@, 1, g)
                               \o <<[data |-> <<>>, err |-> NoErr]>>
                               \o SubSeq(@, g + 1, Len(@))]

\* The source src with the error of its last read moved into a read of its
\* own behind it, which returns no data.
StatusAfterData(src) ==
    IF src.reads = <<>> \/ src.reads[Len(src.reads)].err = NoErr THEN src
    ELSE [reads |-> SubSeq(src.reads, 1, Len(src.reads) - 1)
                    \o <<[data |-> src.reads[Len(src.reads)].data, err |-> NoErr],
                         [data |-> <<>>, err |-> src.reads[Len(src.reads)].err]>>,
          tail |-> src.tail]

\* The source src as next() delivers it: the data that its last read returns
\* together with a failure dropped, the end-of-stream that it returns with
\* data moved behind the data.
AsDelivered(src) ==
    IF src.reads = <<>> \/ src.reads[Len(src.reads)].err \in {NoErr, EOF}
    THEN StatusAfterData(src)
    ELSE [src EXCEPT !.reads[Len(src.reads)].data = <<>>]

InitCursor ==
    \E bytes \in CursorStreams,
       ending \in CleanEndings \cup FailingEndings \cup LossyEndings :
    \E cuts \in Cuts(Len(bytes)), g \in {0 - 1, 0, 1} :
    \E src \in {WithEmptyRead(Source(bytes, cuts, ending[1], ending[2]), g)} :
        Start(src, [bytes |-> bytes, cuts |-> cuts, ending |-> ending,
                    gap |-> g, source |-> src])

SpecCursor == InitCursor /\ [][Next]_vars

\* The source has a read of zero bytes and no error yet to return.
EmptyReadAhead(dec) ==
    \E i \in 1..Len(dec.source.reads) :
        dec.source.reads[i].data = <<>> /\ dec.source.reads[i].err = NoErr

\* C19: the calls return what they return when the source hands the same
\* bytes out in the same reads and returns the error or end-of-stream of its
\* last read in a read of its own behind the data: the bytes of a read reach
\* the callers before the status that came with them.  And a call during
\* which the source returns a read of zero bytes and no error is told
\* end-of-stream by next().
C19_BytesBeforeStatus ==
    /\ results = Replay(NewDecoder(StatusAfterData(stream.source)), NoReader,
                        results)
    /\ (EmptyReadAhead(last) /\ ~EmptyReadAhead(d)) => d.hitEOF

\* C19, as the code keeps it: bytes that come with end-of-stream are handed
\* out first, bytes that come with a failure are dropped and the failure is
\* returned at once; a read of zero bytes and no error is end-of-stream.
C19_BytesWithFailureDropped ==
    /\ results = Replay(NewDecoder(AsDelivered(stream.source)), NoReader, results)
    /\ (EmptyReadAhead(last) /\ ~EmptyReadAhead(d)) => d.hitEOF

====
